---- MODULE Spec2Model ----
(***************************************************************************)
(* Snapshot-delta resource-rate estimator of the benchmarking scripts:     *)
(*   src/wrk2/measure_step.py        ("wrk2" variant)                       *)
(*   src/experiment/measure_step.py  ("experiment" variant)                 *)
(*                                                                         *)
(* The specifications share the variables below.                           *)
(*   Spec        : the sequential driver (precheck, T1 snapshot, sleep, T2 *)
(*                 snapshot, delta loop, save, exit) of both variants.     *)
(*   SpecFetch   : the Parallel Fetcher (collect_network_parallel with     *)
(*                 get_pod_network_direct running in pool workers) and the *)
(*                 merge of its result into the snapshot.                  *)
(*   SpecPool    : the worker pool of the Parallel Fetcher under a batch   *)
(*                 larger than the pool.                                   *)
(*   SpecTwice   : the wrk2 driver with calculate_deltas called a second   *)
(*                 time on the same snapshots.                             *)
(*   SpecService : the service-name derivation of both variants.           *)
(*   SpecKubelet : the per-pod loop over the kubelet summary (namespace    *)
(*                 filter, container CPU sums) of both variants.           *)
(*                                                                         *)
(* Units.  CPU counters are cumulative nanoseconds in the code.  The model *)
(* holds them in microseconds (ns / 1000) so that 3e9 ns fits the model    *)
(* checker's integers; the code's division by 1_000_000 is then a division *)
(* by 1000.  Rates that the code rounds to two decimals are held in        *)
(* hundredths.  elapsed time is held in whole seconds.                     *)
(***************************************************************************)
EXTENDS Integers, Sequences, FiniteSets, TLC

VARIABLES
    variant,          \* which script runs: "wrk2" or "experiment"
    pc,               \* position of the driver (main / collect_metrics)
    exit_code,        \* process exit status, -1 while running
    t1,               \* Snapshot(T1): key -> reading
    t2,               \* Snapshot(T2): key -> reading
    actual_duration,  \* measured elapsed seconds between the snapshots
    todo,             \* keys of t1 the delta loop has not visited yet
    rows,             \* Delta Records appended so far
    logged,           \* {<<key, reason>>} written by log_failure / log_warn
    warned_empty,     \* experiment: log_warn("No metrics collected!") issued
    pcm_proc,         \* experiment: the PCM process, "none" | "running" | "stopped"
    \* ---- wall clock ----
    collect_cost,     \* <<c1, c2>>: seconds the T1 / T2 collection takes
    now,              \* the wall clock, seconds since the run started
    t1_time,          \* start_time (wrk2) / t1_time (experiment)
    t1_assembled,     \* the instant the T1 snapshot was assembled
    t2_time,          \* end_time (wrk2) / t2_time (experiment)
    \* ---- a second call of calculate_deltas ----
    run_no,           \* which call of calculate_deltas is running: 1 or 2
    first_rows,       \* the list the first call returned
    \* ---- Parallel Fetcher ----
    pods_info,        \* the list of pods handed to collect_network_parallel
    pcMain,           \* position of the calling thread
    submitted,        \* number of futures submitted so far
    fstate,           \* per future: "queued" | "running" | "finished" | "collected"
    hist,             \* per future: outcomes of the attempts made so far
    fresult,          \* per future: value returned by get_pod_network_direct
    results,          \* the result mapping: key -> <<rx, tx>>
    writes,           \* {<<key, future, thread>>}: the stores into results
    metrics,          \* the snapshot the fetched readings are merged into
    \* ---- service names ----
    pod_name,         \* a pod name, as its sequence of characters
    service,          \* the service name each variant derives from it
    \* ---- kubelet summary loop ----
    include_all_ns,   \* --all-namespaces / --include-all was given
    target_namespaces,\* TARGET_NAMESPACES: namespace -> [enabled, category]
    kube_pc,          \* position: "flags" | "summary" | "done"
    pods_seen,        \* pods of the summary the loop has visited
    snapshot,         \* the snapshot under construction: key -> entry
    \* ---- aggregate_by_experiment ----
    agg_data,         \* the input rows still to be grouped
    experiments,      \* the groups, in insertion order: <<[key, rows]>>
    summary_list,     \* the summaries appended so far
    agg_pc,           \* "group" | "summarize" | "returned" | "raised"
    \* ---- parse_wrk_output ----
    wrk_content,      \* the report text, as what each pattern finds in it
    wrk_result,       \* the result dictionary
    wrk_pc,           \* "parse" | "returned" | "raised"
    \* ---- LocalCPUMonitor ----
    mon_running,      \* self.running
    mon_thread,       \* position of the monitor thread
    mon_main,         \* position of the thread that owns the monitor
    mon_usages,       \* usages of the sample being processed: <<[core, usage]>>
    mon_header,       \* cores of the header row, <<>> before it is written
    mon_rows,         \* data rows written: each a sequence of [core, usage]
    mon_stats,        \* [samples, sum_avg, max_usage, max_core]
    join_wait,        \* seconds the stopping thread has waited in join
    stats_at_stop     \* mon_stats as it was when stop() returned

timeVars   == <<collect_cost, now, t1_time, t1_assembled, t2_time>>
rerunVars  == <<run_no, first_rows>>
driverVars == <<pc, exit_code, t1, t2, actual_duration, todo, rows, warned_empty,
                pcm_proc, timeVars, rerunVars>>
fetchVars  == <<pods_info, pcMain, submitted, fstate, hist, fresult, results,
                writes, metrics>>
nameVars   == <<pod_name, service>>
kubeVars   == <<include_all_ns, target_namespaces, kube_pc, pods_seen, snapshot>>
aggVars    == <<agg_data, experiments, summary_list, agg_pc>>
wrkVars    == <<wrk_content, wrk_result, wrk_pc>>
monVars    == <<mon_running, mon_thread, mon_main, mon_usages, mon_header, mon_rows,
                mon_stats, join_wait, stats_at_stop>>
toolVars   == <<aggVars, wrkVars, monVars>>
vars == <<variant, driverVars, logged, fetchVars, nameVars, kubeVars, toolVars>>

\* what no action of the driver changes
driverOthers == <<fetchVars, nameVars, kubeVars, toolVars>>
\* what no action of the Parallel Fetcher changes
fetchOthers == <<driverVars, nameVars, kubeVars, toolVars>>

(***************************************************************************)
(* Bounds and program constants                                            *)
(***************************************************************************)
MaxCollect == 1          \* a snapshot collection takes 0..MaxCollect seconds
requested_duration == 1  \* the --duration argument, in seconds
MaxPods == 2             \* longest pod list handed to the Parallel Fetcher
PoolBatch == 11          \* pods in the batch handed to the worker pool
MaxNameLen == 7          \* longest pod name, in characters
MaxContainers == 2       \* most containers of a pod in the kubelet summary
MaxSummaryPods == 2      \* most pods in the kubelet summary
MaxRows == 3             \* rows handed to aggregate_by_experiment
MaxCaptureLen == 3       \* longest Requests/sec capture, in characters
MaxSamples == 2          \* most rows the CPU monitor writes

MAX_RETRIES == 2
NETWORK_WORKERS == 10
CPU_DIVISOR_NS == 1000000
KIB == 1024
JOIN_TIMEOUT == 3

MicroScale == 10 * 10 * 10             \* nanoseconds per model CPU unit
CpuDivisor == CPU_DIVISOR_NS \div MicroScale

Variants == {"wrk2", "experiment"}

(***************************************************************************)
(* Entities and readings                                                   *)
(***************************************************************************)
EntityOrder == <<"default/frontend-abc123-xy1", "default/search-5f7d9-k2p4z">>
Entities == {EntityOrder[i] : i \in 1..Len(EntityOrder)}

\* A reading of one pod at one instant: cumulative CPU of the app containers
\* and of the sidecar (the total is their sum, as both collectors add every
\* container to the total and to one of the two sub-totals), the memory
\* gauges in bytes, and the cumulative received / transmitted bytes.
Reading(app, sidecar, mem, rx, tx) ==
    [cpu_total |-> app + sidecar, cpu_app |-> app, cpu_sidecar |-> sidecar,
     mem_ws_bytes |-> mem, mem_rss_bytes |-> mem \div 2, rx |-> rx, tx |-> tx]

\* The readings the two snapshots are drawn from.  Against the T1 values each
\* CPU sub-counter can fall, stay or rise at T2 (so the total can stay or rise
\* while one sub-counter falls), and each byte counter can fall or rise.
\* 1000000 and 3000000 model units are 1e9 and 3e9 ns.  In the experiment
\* variant rx / tx are the entries of t1_network / t2_network for the key
\* (both are fetched for the pods of the T1 snapshot).
CpuVals == {0, 1000000, 3000000}
MemVals == {94900000, 125829120}
NetVals == {3000, 6000}
T1Readings ==
    {Reading(1000000, sc, 104857600, 5000, 5000) : sc \in {0, 1000000}}
T2Readings ==
    {Reading(app, sc, mem, rx, tx) :
        app \in CpuVals, sc \in CpuVals, mem \in MemVals,
        rx \in NetVals, tx \in NetVals}

Snapshots(R) == UNION {[S -> R] : S \in SUBSET Entities}

(***************************************************************************)
(* Arithmetic as the code computes it                                      *)
(***************************************************************************)
\* int(x): truncation toward zero of n / d, d > 0
IntTrunc(n, d) == IF n >= 0 THEN n \div d ELSE -((-n) \div d)

\* round(n / d, 2) in hundredths, d > 0: nearest, ties to even
Round2(n, d) ==
    LET num == 100 * (IF n >= 0 THEN n ELSE -n)
        q == num \div d
        r == num % d
        mag == IF 2 * r > d THEN q + 1
               ELSE IF 2 * r < d THEN q
               ELSE IF q % 2 = 0 THEN q ELSE q + 1
    IN IF n >= 0 THEN mag ELSE -mag


\* int(bytes / (1024 * 1024))
MemMiB(bytes) == IntTrunc(bytes, KIB * KIB)

\* int((delta / duration) / 1_000_000), the CPU rate in millicores
Millicores(delta, duration) == IntTrunc(delta, duration * CpuDivisor)

\* round(delta / duration / 1024, 2), the network rate in KB/s (hundredths)
Kbps(delta, duration) == Round2(delta, duration * KIB)

(***************************************************************************)
(* Delta computation, wrk2: calculate_deltas                               *)
(***************************************************************************)
\* mutant of wrk2_negative_delta: "<= 0" for "< 0" on the CPU total
wrk2_negative_delta_or_zero(s, e) ==
    \/ e.cpu_total - s.cpu_total <= 0
    \/ e.rx - s.rx < 0
    \/ e.tx - s.tx < 0

\* the "negative check" that drops the entity
wrk2_negative_delta(s, e) ==
    \/ e.cpu_total - s.cpu_total < 0
    \/ e.rx - s.rx < 0
    \/ e.tx - s.tx < 0

wrk2_row(key, s, e, duration) ==
    [pod |-> key,
     cpu_total_m |-> Millicores(e.cpu_total - s.cpu_total, duration),
     cpu_app_m |-> Millicores(e.cpu_app - s.cpu_app, duration),
     cpu_sidecar_m |-> Millicores(e.cpu_sidecar - s.cpu_sidecar, duration),
     mem_working_set |-> MemMiB(e.mem_ws_bytes),
     mem_rss |-> MemMiB(e.mem_rss_bytes),
     mem_delta |-> MemMiB(e.mem_ws_bytes) - MemMiB(s.mem_ws_bytes),
     rx_kbps |-> Kbps(e.rx - s.rx, duration),
     tx_kbps |-> Kbps(e.tx - s.tx, duration)]

\* mutant of calculate_deltas_step: a disappeared pod ends the loop (break)
calculate_deltas_step_break ==
    /\ variant = "wrk2"
    /\ pc = "delta"
    /\ todo # <<>>
    /\ LET key == Head(todo) IN
       IF key \notin DOMAIN t2
       THEN /\ logged' = logged \cup {<<key, "Pod disappeared during measurement">>}
            /\ rows' = rows
            /\ todo' = <<>>
       ELSE IF wrk2_negative_delta(t1[key], t2[key])
       THEN /\ logged' = logged \cup {<<key, "Negative delta detected (counter reset?)">>}
            /\ rows' = rows
            /\ todo' = Tail(todo)
       ELSE /\ logged' = logged
            /\ rows' = Append(rows, wrk2_row(key, t1[key], t2[key], actual_duration))
            /\ todo' = Tail(todo)
    /\ UNCHANGED <<variant, pc, exit_code, t1, t2, actual_duration, warned_empty,
                   timeVars, rerunVars, pcm_proc, driverOthers>>

\* one iteration of the loop over start_metrics.items()
calculate_deltas_step ==
    /\ variant = "wrk2"
    /\ pc = "delta"
    /\ todo # <<>>
    /\ LET key == Head(todo) IN
       IF key \notin DOMAIN t2
       THEN /\ logged' = logged \cup {<<key, "Pod disappeared during measurement">>}
            /\ rows' = rows
       ELSE IF wrk2_negative_delta(t1[key], t2[key])
       THEN /\ logged' = logged \cup {<<key, "Negative delta detected (counter reset?)">>}
            /\ rows' = rows
       ELSE /\ logged' = logged
            /\ rows' = Append(rows, wrk2_row(key, t1[key], t2[key], actual_duration))
    /\ todo' = Tail(todo)
    /\ UNCHANGED <<variant, pc, exit_code, t1, t2, actual_duration, warned_empty,
                   timeVars, rerunVars, pcm_proc, driverOthers>>

(***************************************************************************)
(* Delta computation, experiment: step 7 of collect_metrics                *)
(***************************************************************************)
\* the CPU counter-reset test that skips the entity
exp_counter_reset(s, e) ==
    \/ e.cpu_total - s.cpu_total < 0
    \/ e.cpu_app - s.cpu_app < 0

\* a negative network delta is replaced by zero
exp_clamp(delta) == IF delta < 0 THEN 0 ELSE delta

exp_row(key, s, e, duration) ==
    [pod |-> key,
     cpu_total_m |-> Millicores(e.cpu_total - s.cpu_total, duration),
     cpu_app_m |-> Millicores(e.cpu_app - s.cpu_app, duration),
     cpu_sidecar_m |-> Millicores(e.cpu_sidecar - s.cpu_sidecar, duration),
     mem_working_set |-> MemMiB(e.mem_ws_bytes),
     mem_rss |-> MemMiB(e.mem_rss_bytes),
     rx_kbps |-> Kbps(exp_clamp(e.rx - s.rx), duration),
     tx_kbps |-> Kbps(exp_clamp(e.tx - s.tx), duration)]

\* one iteration of the loop over t1_snapshot.items()
collect_metrics_delta_step ==
    /\ variant = "experiment"
    /\ pc = "delta"
    /\ todo # <<>>
    /\ LET key == Head(todo) IN
       IF key \notin DOMAIN t2
       THEN /\ logged' = logged
            /\ rows' = rows
       ELSE IF exp_counter_reset(t1[key], t2[key])
       THEN /\ logged' = logged \cup {<<key, "Counter reset detected, skipping">>}
            /\ rows' = rows
       ELSE /\ logged' = logged
            /\ rows' = Append(rows, exp_row(key, t1[key], t2[key], actual_duration))
    /\ todo' = Tail(todo)
    /\ UNCHANGED <<variant, pc, exit_code, t1, t2, actual_duration, warned_empty,
                   timeVars, rerunVars, pcm_proc, driverOthers>>

(***************************************************************************)
(* The driver: main (wrk2), main + collect_metrics (experiment)            *)
(***************************************************************************)
EmptySnapshot == [k \in {} |-> Reading(0, 0, 0, 0, 0)]

\* keys of a snapshot in the order the loop visits them
KeysInOrder(snap) == SelectSeq(EntityOrder, LAMBDA k : k \in DOMAIN snap)

\* get_node_names() / check_kubectl_proxy(): without the API the run exits 1
main_precheck ==
    /\ pc = "precheck"
    /\ \E reachable \in BOOLEAN :
          IF reachable
          THEN pc' = "collect_t1" /\ exit_code' = exit_code
          ELSE pc' = "exited" /\ exit_code' = 1
    /\ UNCHANGED <<variant, t1, t2, actual_duration, todo, rows, warned_empty,
                   logged, timeVars, rerunVars, pcm_proc, driverOthers>>

\* the clock reading the elapsed time is measured from: wrk2 takes
\* start_time = datetime.now() before it collects the T1 snapshot, experiment
\* takes t1_time = time.time() after the T1 snapshot and its network readings
T1Stamp(before, after) == IF variant = "wrk2" THEN before ELSE after

\* the T1 snapshot; wrk2 exits 1 when it is empty, experiment goes on
collect_T1 ==
    /\ pc = "collect_t1"
    /\ \E snap \in Snapshots(T1Readings) :
          /\ t1' = snap
          /\ IF variant = "wrk2" /\ DOMAIN snap = {}
             THEN pc' = "exited" /\ exit_code' = 1
             ELSE pc' = "sleep" /\ exit_code' = exit_code
    /\ now' = now + collect_cost[1]
    /\ t1_assembled' = now'
    /\ t1_time' = T1Stamp(now, now')
    /\ IF variant = "experiment"
       THEN \E started \in BOOLEAN :
               pcm_proc' = IF started THEN "running" ELSE "none"
       ELSE pcm_proc' = pcm_proc
    /\ UNCHANGED <<variant, t2, actual_duration, todo, rows, warned_empty,
                   logged, collect_cost, t2_time, rerunVars, driverOthers>>

\* time.sleep(duration): the call blocks for the requested time (a signal
\* whose handler returns does not shorten it), or a SIGINT arrives and the
\* KeyboardInterrupt it raises, which nothing in the driver catches, ends
\* the process
sleep ==
    /\ pc = "sleep"
    /\ \E sigint \in BOOLEAN :
          IF sigint
          THEN /\ \E slept \in 0..(requested_duration - 1) : now' = now + slept
               /\ pc' = "interrupted"
               /\ exit_code' = 1
          ELSE /\ now' = now + requested_duration
               /\ pc' = "collect_t2"
               /\ exit_code' = exit_code
    /\ UNCHANGED <<variant, t1, t2, actual_duration, todo, rows, warned_empty, logged,
                   collect_cost, t1_time, t1_assembled, t2_time, rerunVars,
                   pcm_proc, driverOthers>>

\* the T2 snapshot, then the second clock reading and the measured elapsed
\* time; the delta loop starts
collect_T2 ==
    /\ pc = "collect_t2"
    /\ \E snap \in Snapshots(T2Readings) : t2' = snap
    /\ now' = now + collect_cost[2]
    /\ t2_time' = now'
    /\ actual_duration' = t2_time' - t1_time
    /\ pcm_proc' = IF pcm_proc = "running" THEN "stopped" ELSE pcm_proc
    /\ todo' = KeysInOrder(t1)
    /\ pc' = "delta"
    /\ UNCHANGED <<variant, exit_code, t1, rows, warned_empty, logged,
                   collect_cost, t1_time, t1_assembled, rerunVars, driverOthers>>

\* after the loop: the rows are saved (experiment warns when there are none)
\* and the run ends normally
save_and_finish ==
    /\ pc = "delta"
    /\ todo = <<>>
    /\ warned_empty' = (variant = "experiment" /\ rows = <<>>)
    /\ exit_code' = 0
    /\ pc' = "exited"
    /\ UNCHANGED <<variant, t1, t2, actual_duration, todo, rows, logged,
                   timeVars, rerunVars, pcm_proc, driverOthers>>

FetchIdle ==
    /\ pods_info = <<>>
    /\ pcMain = "idle"
    /\ submitted = 0
    /\ fstate = <<>>
    /\ hist = <<>>
    /\ fresult = <<>>
    /\ results = EmptySnapshot
    /\ writes = {}
    /\ metrics = EmptySnapshot

\* marks a service name that has not been derived (no pod name holds "?")
NotDerived == <<"?">>

AggIdle ==
    /\ agg_data = <<>>
    /\ experiments = <<>>
    /\ summary_list = <<>>
    /\ agg_pc = "idle"

WrkIdle ==
    /\ wrk_content = <<>>
    /\ wrk_result = <<>>
    /\ wrk_pc = "idle"

MonIdle ==
    /\ mon_running = FALSE
    /\ mon_thread = "idle"
    /\ mon_main = "idle"
    /\ mon_usages = <<>>
    /\ mon_header = <<>>
    /\ mon_rows = <<>>
    /\ mon_stats = <<>>
    /\ join_wait = 0
    /\ stats_at_stop = <<>>

NamesIdle ==
    /\ pod_name = <<>>
    /\ service = [experiment |-> NotDerived, wrk2 |-> NotDerived]

\* TARGET_NAMESPACES as the module defines it
TargetDefaults(v) ==
    IF v = "wrk2"
    THEN [ns \in {"default", "istio-system", "kube-system"} |->
            IF ns = "default"
            THEN [enabled |-> TRUE, category |-> "application"]
            ELSE IF ns = "istio-system"
            THEN [enabled |-> FALSE, category |-> "istio-control-plane"]
            ELSE [enabled |-> FALSE, category |-> "kubernetes-system"]]
    ELSE [ns \in {"default", "hotel-res", "istio-system", "kube-system"} |->
            IF ns \in {"default", "hotel-res"}
            THEN [enabled |-> TRUE, category |-> "application"]
            ELSE IF ns = "istio-system"
            THEN [enabled |-> FALSE, category |-> "istio-control-plane"]
            ELSE [enabled |-> FALSE, category |-> "kubernetes-system"]]

KubeletIdle ==
    /\ include_all_ns = FALSE
    /\ target_namespaces = TargetDefaults(variant)
    /\ kube_pc = "idle"
    /\ pods_seen = 0
    /\ snapshot = EmptySnapshot

\* the driver before its first step, the clock at zero
DriverStart ==
    /\ pc = "precheck"
    /\ exit_code = -1
    /\ t1 = EmptySnapshot
    /\ t2 = EmptySnapshot
    /\ actual_duration = 0
    /\ todo = <<>>
    /\ rows = <<>>
    /\ logged = {}
    /\ warned_empty = FALSE
    /\ pcm_proc = "none"
    /\ now = 0
    /\ t1_time = 0
    /\ t1_assembled = 0
    /\ t2_time = 0
    /\ run_no = 1
    /\ first_rows = <<>>

Init ==
    /\ variant \in Variants
    /\ DriverStart
    /\ collect_cost \in (0..MaxCollect) \X (0..MaxCollect)
    /\ FetchIdle
    /\ NamesIdle
    /\ AggIdle
    /\ WrkIdle
    /\ MonIdle
    /\ KubeletIdle

Next ==
    \/ main_precheck
    \/ collect_T1
    \/ sleep
    \/ collect_T2
    \/ calculate_deltas_step
    \/ collect_metrics_delta_step
    \/ save_and_finish

Spec == Init /\ [][Next]_vars

(***************************************************************************)
(* calculate_deltas called once more on the same snapshots (wrk2)          *)
(***************************************************************************)
\* mutant of calculate_deltas_again: the list of rows outlives the call
calculate_deltas_again_keeps_rows ==
    /\ variant = "wrk2"
    /\ pc = "delta"
    /\ todo = <<>>
    /\ run_no = 1
    /\ first_rows' = rows
    /\ rows' = rows
    /\ todo' = KeysInOrder(t1)
    /\ run_no' = 2
    /\ UNCHANGED <<variant, pc, exit_code, t1, t2, actual_duration, warned_empty,
                   logged, timeVars, pcm_proc, driverOthers>>

\* the first call has returned its list; calculate_deltas is entered again
\* with the same start_metrics, end_metrics and duration: rows = [] and the
\* loop over start_metrics.items() starts over
calculate_deltas_again ==
    /\ variant = "wrk2"
    /\ pc = "delta"
    /\ todo = <<>>
    /\ run_no = 1
    /\ first_rows' = rows
    /\ rows' = <<>>
    /\ todo' = KeysInOrder(t1)
    /\ run_no' = 2
    /\ UNCHANGED <<variant, pc, exit_code, t1, t2, actual_duration, warned_empty,
                   logged, timeVars, pcm_proc, driverOthers>>

\* a wrk2 run whose collections take no time
InitTwice ==
    /\ variant = "wrk2"
    /\ DriverStart
    /\ collect_cost = <<0, 0>>
    /\ FetchIdle
    /\ NamesIdle
    /\ AggIdle
    /\ WrkIdle
    /\ MonIdle
    /\ KubeletIdle

NextTwice ==
    \/ main_precheck
    \/ collect_T1
    \/ sleep
    \/ collect_T2
    \/ calculate_deltas_step
    \/ calculate_deltas_again
    \/ save_and_finish

SpecTwice == InitTwice /\ [][NextTwice]_vars

(***************************************************************************)
(* Parallel Fetcher: get_pod_network_direct and collect_network_parallel   *)
(***************************************************************************)
PodUniverse ==
    {[namespace |-> "default", name |-> "frontend-abc123-xy1"],
     [namespace |-> "default", name |-> "search-5f7d9-k2p4z"],
     [namespace |-> "istio-system", name |-> "frontend-abc123-xy1"]}

\* every pod list of at most MaxPods pods (a pod may be listed twice)
PodLists == UNION {[1..n -> PodUniverse] : n \in 0..MaxPods}

\* counter pairs <<rx, tx>> that the eth0 / net1 line of /proc/net/dev can hold
NetReadings == {<<0, 0>>, <<5000, 3000>>}

\* what one "kubectl exec ... cat /proc/net/dev" attempt can end as.
\*   ok      : exit status 0 and an eth0 / net1 line that parses to <<rx, tx>>
\*   timeout : subprocess.TimeoutExpired
\*   nonzero : exit status # 0 (exit status 0 without an eth0 / net1 line takes
\*             the same path: the attempt ends without a return and without a
\*             log entry, and the next attempt starts)
\*   error   : any other exception (kubectl missing, a line that does not parse)
Failure(kind) == [kind |-> kind, rx |-> 0, tx |-> 0]
Outcomes ==
    {[kind |-> "ok", rx |-> v[1], tx |-> v[2]] : v \in NetReadings}
        \cup {Failure(k) : k \in {"timeout", "nonzero", "error"}}

\* mutant of PodKey: the namespace is left out of the key
PodKeyNameOnly(pod) == <<pod.name>>

\* key = f"{pod['namespace']}/{pod['name']}"
PodKey(pod) == <<pod.namespace, pod.name>>

\* mutant of ExhaustedResult: an error sentinel instead of the zero pair
ExhaustedResultMinusOne == <<-1, -1>>

\* the value returned once the attempts are used up: return 0, 0
ExhaustedResult == <<0, 0>>

\* mutant of MoreAttempts: range(MAX_RETRIES + 1)
MoreAttemptsOffByOne(made) == made < MAX_RETRIES + 1

\* for attempt in range(MAX_RETRIES): another attempt follows `made` attempts
MoreAttempts(made) == made < MAX_RETRIES

\* what an attempt writes to the failure log (attempt numbers start at 1)
AttemptLog(key, outcome, attempt) ==
    IF variant = "wrk2" /\ outcome.kind = "timeout"
    THEN {<<key, "Network timeout", attempt>>}
    ELSE IF variant = "wrk2" /\ outcome.kind = "error"
    THEN {<<key, "Network error", attempt>>}
    ELSE {}

FutureIds == 1..Len(pods_info)
Running == {i \in FutureIds : fstate[i] = "running"}

\* executor.submit(get_pod_network_direct, name, namespace) for the next pod
submit ==
    /\ pcMain = "running"
    /\ submitted < Len(pods_info)
    /\ submitted' = submitted + 1
    /\ fstate' = [fstate EXCEPT ![submitted + 1] = "queued"]
    /\ UNCHANGED <<variant, fetchOthers, logged, pods_info, pcMain, hist, fresult,
                   results, writes, metrics>>

\* mutant of WorkerFree: one worker more than max_workers
WorkerFreeOneMore == Cardinality(Running) < NETWORK_WORKERS + 1

\* ThreadPoolExecutor(max_workers=NETWORK_WORKERS): a worker is free while
\* fewer than max_workers calls are running
WorkerFree == Cardinality(Running) < NETWORK_WORKERS

\* a free pool worker takes the oldest queued future
worker_start(i) ==
    /\ fstate[i] = "queued"
    /\ \A j \in 1..(i - 1) : fstate[j] # "queued"
    /\ WorkerFree
    /\ fstate' = [fstate EXCEPT ![i] = "running"]
    /\ UNCHANGED <<variant, fetchOthers, logged, pods_info, pcMain, submitted, hist,
                   fresult, results, writes, metrics>>

\* mutant of network_attempt: `while True` in place of
\* `for attempt in range(MAX_RETRIES)`: a failed round of attempts starts over
network_attempt_unbounded(i) ==
    /\ fstate[i] = "running"
    /\ MoreAttempts(Len(hist[i]))
    /\ \E o \in Outcomes :
          LET h == Append(hist[i], o)
          IN /\ hist' = [hist EXCEPT ![i] = IF o.kind = "ok" \/ MoreAttempts(Len(h))
                                            THEN h ELSE <<>>]
             /\ IF o.kind = "ok"
                THEN /\ fresult' = [fresult EXCEPT ![i] = <<o.rx, o.tx>>]
                     /\ fstate' = [fstate EXCEPT ![i] = "finished"]
                ELSE /\ fresult' = fresult
                     /\ fstate' = fstate
    /\ UNCHANGED <<variant, fetchOthers, logged, pods_info, pcMain, submitted,
                   results, writes, metrics>>

\* one pass of the retry loop of get_pod_network_direct in future i: the
\* attempt returns the counter pair, or fails and either leaves the loop
\* (return 0, 0) or goes to the next attempt
network_attempt(i) ==
    /\ fstate[i] = "running"
    /\ MoreAttempts(Len(hist[i]))
    /\ \E o \in Outcomes :
          LET h == Append(hist[i], o)
              key == PodKey(pods_info[i])
          IN /\ hist' = [hist EXCEPT ![i] = h]
             /\ logged' = logged \cup AttemptLog(key, o, Len(h))
             /\ IF o.kind = "ok"
                THEN /\ fresult' = [fresult EXCEPT ![i] = <<o.rx, o.tx>>]
                     /\ fstate' = [fstate EXCEPT ![i] = "finished"]
                ELSE IF MoreAttempts(Len(h))
                THEN /\ fresult' = fresult
                     /\ fstate' = fstate
                ELSE /\ fresult' = [fresult EXCEPT ![i] = ExhaustedResult]
                     /\ fstate' = [fstate EXCEPT ![i] = "finished"]
    /\ UNCHANGED <<variant, fetchOthers, pods_info, pcMain, submitted, results,
                   writes, metrics>>

\* mutant of StoringThread: the store is moved into the function the pool runs
StoringThreadWorker == "worker"

\* the thread that executes the store results[key] = (rx, tx): the store is
\* in the body of the as_completed loop, which the thread that called
\* collect_network_parallel runs; the pool workers only return their pair
StoringThread == "caller"

\* for future in as_completed(future_to_pod): results[key] = future.result()
collect_result(i) ==
    /\ pcMain = "running"
    /\ submitted = Len(pods_info)
    /\ fstate[i] = "finished"
    /\ LET key == PodKey(pods_info[i]) IN
          /\ results' = [k \in DOMAIN results \cup {key} |->
                            IF k = key THEN fresult[i] ELSE results[k]]
          /\ writes' = writes \cup {<<key, i, StoringThread>>}
    /\ fstate' = [fstate EXCEPT ![i] = "collected"]
    /\ UNCHANGED <<variant, fetchOthers, logged, pods_info, pcMain, submitted, hist,
                   fresult, metrics>>

\* mutant of fetch_return: the executor is left without waiting for the
\* futures (shutdown(wait=False), no as_completed loop to the end)
fetch_return_no_join ==
    /\ pcMain = "running"
    /\ submitted = Len(pods_info)
    /\ pcMain' = "returned"
    /\ UNCHANGED <<variant, fetchOthers, logged, pods_info, submitted, fstate, hist,
                   fresult, results, writes, metrics>>

\* as_completed is exhausted, the executor is shut down: return results
fetch_return ==
    /\ pcMain = "running"
    /\ submitted = Len(pods_info)
    /\ \A i \in FutureIds : fstate[i] = "collected"
    /\ pcMain' = "returned"
    /\ UNCHANGED <<variant, fetchOthers, logged, pods_info, submitted, fstate, hist,
                   fresult, results, writes, metrics>>

\* the network reading paired with an entity: the fetched pair, and the zero
\* pair for a key the mapping lacks (wrk2 initialises rx_cum / tx_cum to 0 and
\* overwrites them for the keys of network_data; experiment reads
\* t1_network.get(key, (0, 0)) and t2_network.get(key, (0, 0)))
NetworkOf(network_data, key) ==
    IF key \in DOMAIN network_data THEN network_data[key] ELSE <<0, 0>>

\* mutant of merge_keys: an entity whose read came back as the zero pair is
\* left out of the snapshot
merge_keys_fetched_only(m, network_data) ==
    {k \in DOMAIN m : k \in DOMAIN network_data /\ network_data[k] # <<0, 0>>}

\* the entities of the snapshot after the merge: those of the CPU / memory
\* query, whatever the network mapping holds
merge_keys(m, network_data) == DOMAIN m

\* the network readings join the CPU / memory entries of the snapshot
merge_network ==
    /\ pcMain = "returned"
    /\ metrics' = [k \in merge_keys(metrics, results) |->
                      [metrics[k] EXCEPT !.rx = NetworkOf(results, k)[1],
                                         !.tx = NetworkOf(results, k)[2]]]
    /\ pcMain' = "merged"
    /\ UNCHANGED <<variant, fetchOthers, logged, pods_info, submitted, fstate, hist,
                   fresult, results, writes>>

\* the entry the CPU / memory query yields for a pod, before the network
\* readings are merged in ('rx_cum': 0, 'tx_cum': 0)
KubeletEntry == Reading(1000000, 0, 104857600, 0, 0)

DriverIdle ==
    /\ pc = "idle"
    /\ exit_code = -1
    /\ t1 = EmptySnapshot
    /\ t2 = EmptySnapshot
    /\ actual_duration = 0
    /\ todo = <<>>
    /\ rows = <<>>
    /\ warned_empty = FALSE
    /\ pcm_proc = "none"
    /\ collect_cost = <<0, 0>>
    /\ now = 0
    /\ t1_time = 0
    /\ t1_assembled = 0
    /\ t2_time = 0
    /\ run_no = 1
    /\ first_rows = <<>>

InitFetch ==
    /\ variant \in Variants
    /\ DriverIdle
    /\ logged = {}
    /\ pods_info \in PodLists
    /\ pcMain = "running"
    /\ submitted = 0
    /\ fstate = [i \in 1..Len(pods_info) |-> "new"]
    /\ hist = [i \in 1..Len(pods_info) |-> <<>>]
    /\ fresult = [i \in 1..Len(pods_info) |-> <<0, 0>>]
    /\ results = EmptySnapshot
    /\ writes = {}
    /\ metrics = [k \in {PodKey(pods_info[i]) : i \in 1..Len(pods_info)} |-> KubeletEntry]
    /\ NamesIdle
    /\ AggIdle
    /\ WrkIdle
    /\ MonIdle
    /\ KubeletIdle

NextFetch ==
    \/ submit
    \/ \E i \in FutureIds : worker_start(i)
    \/ \E i \in FutureIds : network_attempt(i)
    \/ \E i \in FutureIds : collect_result(i)
    \/ fetch_return
    \/ merge_network

SpecFetch == InitFetch /\ [][NextFetch]_vars

\* collect_network_parallel alone, up to its return, under a fair scheduler:
\* the main thread keeps running, a free pool thread takes a queued future,
\* and every kubectl attempt ends (it exits, or subprocess.run's timeout
\* ends it)
NextGather ==
    \/ submit
    \/ \E i \in FutureIds : worker_start(i)
    \/ \E i \in FutureIds : network_attempt(i)
    \/ \E i \in FutureIds : collect_result(i)
    \/ fetch_return

\* the pod lists of the termination check: one list of every length up to
\* MaxPods (which pods are listed changes no step of the fetcher's control flow)
GatherLists ==
    LET order == <<[namespace |-> "default", name |-> "frontend-abc123-xy1"],
                   [namespace |-> "default", name |-> "search-5f7d9-k2p4z"],
                   [namespace |-> "istio-system", name |-> "frontend-abc123-xy1"]>>
    IN {[i \in 1..n |-> order[((i - 1) % Len(order)) + 1]] : n \in 0..MaxPods}

InitGather ==
    /\ InitFetch
    /\ pods_info \in GatherLists

GatherFairness ==
    /\ WF_vars(submit)
    /\ WF_vars(fetch_return)
    /\ \A i \in 1..MaxPods :
          /\ WF_vars(i \in FutureIds /\ worker_start(i))
          /\ WF_vars(i \in FutureIds /\ network_attempt(i))
          /\ WF_vars(i \in FutureIds /\ collect_result(i))

SpecGather == InitGather /\ [][NextGather]_vars /\ GatherFairness

(***************************************************************************)
(* Service names: extract_service_name (experiment) and the inline         *)
(* derivation in collect_cumulative_metrics (wrk2)                         *)
(***************************************************************************)
\* Pod names are sequences of characters.  A name is made of letters, digits
\* and hyphens and starts and ends with a letter or digit; two letters stand
\* for the letters and digits.
NameChars == {"a", "b", "-"}
PodNames ==
    {n \in UNION {[1..l -> NameChars] : l \in 1..MaxNameLen} :
        n[1] # "-" /\ n[Len(n)] # "-"}

Hyphens(str) == {i \in 1..Len(str) : str[i] = "-"}
Min(S) == CHOOSE x \in S : \A y \in S : x <= y
Max(S) == CHOOSE x \in S : \A y \in S : x >= y

\* str.split('-'): the segments between the hyphens, left to right
RECURSIVE Split(_)
Split(str) ==
    IF Hyphens(str) = {}
    THEN <<str>>
    ELSE LET i == Min(Hyphens(str))
         IN <<SubSeq(str, 1, i - 1)>> \o Split(SubSeq(str, i + 1, Len(str)))

\* str.rsplit('-', maxsplit): at most maxsplit splits, made from the right
RECURSIVE RSplit(_, _)
RSplit(str, maxsplit) ==
    IF maxsplit = 0 \/ Hyphens(str) = {}
    THEN <<str>>
    ELSE LET i == Max(Hyphens(str))
         IN RSplit(SubSeq(str, 1, i - 1), maxsplit - 1)
                \o <<SubSeq(str, i + 1, Len(str))>>

\* "-".join(parts)
RECURSIVE Join(_)
Join(parts) ==
    IF parts = <<>> THEN <<>>
    ELSE IF Len(parts) = 1 THEN parts[1]
    ELSE parts[1] \o <<"-">> \o Join(Tail(parts))

\* experiment: extract_service_name(pod_name)
exp_service_name(name) ==
    LET parts == RSplit(name, 2)
    IN IF Len(parts) >= 3 THEN parts[1]
       ELSE IF Len(parts) = 2 THEN parts[1]
       ELSE name

\* mutant of wrk2_service_name: parts[:-1], only the last segment is removed
wrk2_service_name_drop_one(name) ==
    LET parts == Split(name)
    IN IF Len(parts) >= 3 THEN Join(SubSeq(parts, 1, Len(parts) - 1)) ELSE name

\* wrk2: parts = name.split('-'); "-".join(parts[:-2]) for three or more
\* parts, the name itself otherwise
wrk2_service_name(name) ==
    LET parts == Split(name)
    IN IF Len(parts) >= 3 THEN Join(SubSeq(parts, 1, Len(parts) - 2)) ELSE name

\* what no action of the service-name derivation changes
nameOthers == <<variant, driverVars, logged, fetchVars, kubeVars, toolVars>>

\* experiment derives the service name of the pod
extract_service_name ==
    /\ pod_name # <<>>
    /\ service.experiment = NotDerived
    /\ service' = [service EXCEPT !.experiment = exp_service_name(pod_name)]
    /\ UNCHANGED <<pod_name, nameOthers>>

\* wrk2 derives the service name of the pod
derive_service_wrk2 ==
    /\ pod_name # <<>>
    /\ service.wrk2 = NotDerived
    /\ service' = [service EXCEPT !.wrk2 = wrk2_service_name(pod_name)]
    /\ UNCHANGED <<pod_name, nameOthers>>

InitService ==
    /\ variant = "experiment"
    /\ DriverIdle
    /\ logged = {}
    /\ FetchIdle
    /\ KubeletIdle
    /\ AggIdle
    /\ WrkIdle
    /\ MonIdle
    /\ pod_name \in PodNames
    /\ service = [experiment |-> NotDerived, wrk2 |-> NotDerived]

NextService ==
    \/ extract_service_name
    \/ derive_service_wrk2

SpecService == InitService /\ [][NextService]_vars

(***************************************************************************)
(* The kubelet summary loop: collect_cumulative_metrics (wrk2) and         *)
(* collect_kubelet_snapshot (experiment), after main has read the flags    *)
(***************************************************************************)
\* what no action of the kubelet summary loop changes
kubeOthers == <<variant, driverVars, logged, fetchVars, nameVars, toolVars>>

\* namespaces a pod of the summary can belong to; "monitoring" is in neither
\* variant's TARGET_NAMESPACES, "hotel-res" only in experiment's
SummaryNamespaces == {"default", "hotel-res", "istio-system", "kube-system", "monitoring"}

\* container names; the names of the containers of one pod are distinct
ContainerNames == {"frontend", "istio-proxy", "envoy"}

\* usageCoreNanoSeconds of the n-th container of a pod (in model CPU
\* units): every container has used CPU, no two of a pod the same amount
ContainerCpu(n) == n * 1000000

\* the container lists of a pod: up to MaxContainers containers with
\* pairwise distinct names
ContainerLists ==
    {[n \in 1..Len(names) |-> [name |-> names[n], cpu |-> ContainerCpu(n)]] :
        names \in {q \in UNION {[1..l -> ContainerNames] : l \in 0..MaxContainers} :
                     \A i, j \in 1..Len(q) : i # j => q[i] # q[j]}}

\* the pods the summary of a node can list
SummaryPods ==
    {[namespace |-> ns, name |-> "frontend-abc123-xy1", containers |-> cs] :
        ns \in SummaryNamespaces, cs \in ContainerLists}

\* main: with the flag given, the two system namespaces are enabled (wrk2
\* through namespaces = TARGET_NAMESPACES.copy(), a copy that shares the
\* per-namespace dictionaries with the module-level table)
parse_flags ==
    /\ kube_pc = "flags"
    /\ target_namespaces' =
          [ns \in DOMAIN target_namespaces |->
              IF include_all_ns /\ ns \in {"istio-system", "kube-system"}
              THEN [target_namespaces[ns] EXCEPT !.enabled = TRUE]
              ELSE target_namespaces[ns]]
    /\ kube_pc' = "summary"
    /\ UNCHANGED <<include_all_ns, pods_seen, snapshot, kubeOthers>>

\* wrk2: active_namespaces holds the enabled namespaces; a pod of any other
\* namespace is skipped
wrk2_admitted(ns) ==
    ns \in DOMAIN target_namespaces /\ target_namespaces[ns].enabled

\* mutant of exp_admitted: a listed namespace passes whatever its flag
exp_admitted_any_listed(ns) ==
    ns \in DOMAIN target_namespaces

\* experiment: the pod is skipped when TARGET_NAMESPACES has no entry for its
\* namespace, and when the entry is disabled and include_all_ns is not set
exp_admitted(ns) ==
    /\ ns \in DOMAIN target_namespaces
    /\ (target_namespaces[ns].enabled \/ include_all_ns)

ZeroSums == [total |-> 0, app |-> 0, sidecar |-> 0]

\* wrk2, one container: the total and one sub-total take its CPU; the
\* sidecar sub-total is assigned, the application sub-total is added to
wrk2_container_step(acc, c) ==
    IF c.name = "istio-proxy"
    THEN [total |-> acc.total + c.cpu, app |-> acc.app, sidecar |-> c.cpu]
    ELSE [total |-> acc.total + c.cpu, app |-> acc.app + c.cpu, sidecar |-> acc.sidecar]

\* 'istio' in container_name or 'envoy' in container_name
ContainsIstioOrEnvoy(name) == name \in {"istio-proxy", "envoy"}

\* mutant of exp_container_step: a sidecar is added to both sub-totals
exp_container_step_no_else(acc, c) ==
    IF ContainsIstioOrEnvoy(c.name)
    THEN [total |-> acc.total + c.cpu, app |-> acc.app + c.cpu,
          sidecar |-> acc.sidecar + c.cpu]
    ELSE [total |-> acc.total + c.cpu, app |-> acc.app + c.cpu, sidecar |-> acc.sidecar]

\* experiment, one container
exp_container_step(acc, c) ==
    IF ContainsIstioOrEnvoy(c.name)
    THEN [total |-> acc.total + c.cpu, app |-> acc.app, sidecar |-> acc.sidecar + c.cpu]
    ELSE [total |-> acc.total + c.cpu, app |-> acc.app + c.cpu, sidecar |-> acc.sidecar]

\* the loop over pod['containers']
RECURSIVE container_sums(_, _)
container_sums(cs, acc) ==
    IF cs = <<>> THEN acc
    ELSE container_sums(Tail(cs),
                        IF variant = "wrk2"
                        THEN wrk2_container_step(acc, Head(cs))
                        ELSE exp_container_step(acc, Head(cs)))

\* the entry stored for a pod under f"{namespace}/{name}"
SnapshotEntry(pod) ==
    LET sums == container_sums(pod.containers, ZeroSums)
    IN [namespace |-> pod.namespace,
        category |-> target_namespaces[pod.namespace].category,
        cpu_total |-> sums.total, cpu_app |-> sums.app, cpu_sidecar |-> sums.sidecar,
        containers |-> pod.containers]

\* one iteration of the loop over data['pods']
kubelet_pod ==
    /\ kube_pc = "summary"
    /\ pods_seen < MaxSummaryPods
    /\ \E pod \in SummaryPods :
          LET key == PodKey(pod)
              admitted == IF variant = "wrk2"
                          THEN wrk2_admitted(pod.namespace)
                          ELSE exp_admitted(pod.namespace)
          IN IF admitted
             THEN snapshot' = [k \in DOMAIN snapshot \cup {key} |->
                                  IF k = key THEN SnapshotEntry(pod) ELSE snapshot[k]]
             ELSE snapshot' = snapshot
    /\ pods_seen' = pods_seen + 1
    /\ UNCHANGED <<include_all_ns, target_namespaces, kube_pc, kubeOthers>>

\* the summary is exhausted: the snapshot is returned
kubelet_return ==
    /\ kube_pc = "summary"
    /\ kube_pc' = "done"
    /\ UNCHANGED <<include_all_ns, target_namespaces, pods_seen, snapshot, kubeOthers>>

InitKubelet ==
    /\ variant \in Variants
    /\ DriverIdle
    /\ logged = {}
    /\ FetchIdle
    /\ NamesIdle
    /\ AggIdle
    /\ WrkIdle
    /\ MonIdle
    /\ include_all_ns \in BOOLEAN
    /\ target_namespaces = TargetDefaults(variant)
    /\ kube_pc = "flags"
    /\ pods_seen = 0
    /\ snapshot = EmptySnapshot

NextKubelet ==
    \/ parse_flags
    \/ kubelet_pod
    \/ kubelet_return

SpecKubelet == InitKubelet /\ [][NextKubelet]_vars

(***************************************************************************)
(* The worker pool under a batch larger than the pool                      *)
(***************************************************************************)
\* a batch of PoolBatch distinct pods of one namespace; pod number n stands
\* for the pod's name
PoolPods == [n \in 1..PoolBatch |-> [namespace |-> "default", name |-> <<"pod", n>>]]

\* get_pod_network_direct in future i runs to its return statement; which
\* pair it returns has no bearing on the scheduling of the pool
read_finishes(i) ==
    /\ fstate[i] = "running"
    /\ fresult' = [fresult EXCEPT ![i] = ExhaustedResult]
    /\ fstate' = [fstate EXCEPT ![i] = "finished"]
    /\ UNCHANGED <<variant, fetchOthers, logged, pods_info, pcMain, submitted, hist,
                   results, writes, metrics>>

\* the pool is the same code in both variants (max_workers is 10 in both);
\* the variant is pinned
InitPool ==
    /\ variant = "experiment"
    /\ DriverIdle
    /\ logged = {}
    /\ pods_info = PoolPods
    /\ pcMain = "running"
    /\ submitted = 0
    /\ fstate = [i \in 1..Len(pods_info) |-> "new"]
    /\ hist = [i \in 1..Len(pods_info) |-> <<>>]
    /\ fresult = [i \in 1..Len(pods_info) |-> <<0, 0>>]
    /\ results = EmptySnapshot
    /\ writes = {}
    /\ metrics = EmptySnapshot
    /\ NamesIdle
    /\ AggIdle
    /\ WrkIdle
    /\ MonIdle
    /\ KubeletIdle

NextPool ==
    \/ submit
    \/ \E i \in FutureIds : worker_start(i)
    \/ \E i \in FutureIds : read_finishes(i)
    \/ \E i \in FutureIds : collect_result(i)
    \/ fetch_return

SpecPool == InitPool /\ [][NextPool]_vars

(***************************************************************************)
(* The driver with the parallel region of each snapshot collection         *)
(***************************************************************************)
\* the driver reaches collect_network_parallel inside a snapshot collection:
\* a new executor and a new result mapping.  The pods are those of the
\* snapshot just taken; experiment reuses the list of the T1 snapshot for T2.
region_enter ==
    /\ pc \in {"collect_t1", "collect_t2"}
    /\ pcMain = "idle"
    /\ IF variant = "experiment" /\ pc = "collect_t2"
       THEN pods_info' = pods_info
       ELSE pods_info' \in PodLists
    /\ pcMain' = "running"
    /\ submitted' = 0
    /\ fstate' = [i \in 1..Len(pods_info') |-> "new"]
    /\ hist' = [i \in 1..Len(pods_info') |-> <<>>]
    /\ fresult' = [i \in 1..Len(pods_info') |-> <<0, 0>>]
    /\ results' = EmptySnapshot
    /\ writes' = {}
    /\ UNCHANGED <<variant, driverVars, logged, metrics, nameVars, kubeVars, toolVars>>

\* collect_network_parallel has returned: the driver goes on to the step
\* after the snapshot collection (the readings themselves are left out here)
region_leave ==
    /\ pc \in {"collect_t1", "collect_t2"}
    /\ pcMain = "returned"
    /\ pcMain' = "idle"
    /\ pc' = IF pc = "collect_t1" THEN "sleep" ELSE "delta"
    /\ UNCHANGED <<variant, exit_code, t1, t2, actual_duration, todo, rows,
                   warned_empty, pcm_proc, timeVars, rerunVars, logged,
                   pods_info, submitted, fstate, hist, fresult, results, writes,
                   metrics, nameVars, kubeVars, toolVars>>

InitRun ==
    /\ variant \in Variants
    /\ DriverStart
    /\ collect_cost = <<0, 0>>
    /\ FetchIdle
    /\ NamesIdle
    /\ AggIdle
    /\ WrkIdle
    /\ MonIdle
    /\ KubeletIdle

NextRun ==
    \/ main_precheck
    \/ region_enter
    \/ submit
    \/ \E i \in FutureIds : worker_start(i)
    \/ \E i \in FutureIds : read_finishes(i)
    \/ \E i \in FutureIds : collect_result(i)
    \/ fetch_return
    \/ region_leave
    \/ sleep
    \/ save_and_finish

SpecRun == InitRun /\ [][NextRun]_vars

(***************************************************************************)
(* aggregate_results.py: one summary per experiment run                    *)
(***************************************************************************)
aggOthers == <<variant, driverVars, logged, fetchVars, nameVars, kubeVars, wrkVars, monVars>>

\* the text of the RPS column as csv.DictReader hands it over: a sequence of
\* characters.  "x" stands for any character int() does not accept.
RpsTexts == {<<"5">>, <<"1", "0">>, <<"0", "5">>, <<"x">>}

DigitValue == [c \in {"0", "1", "5"} |-> IF c = "0" THEN 0 ELSE IF c = "1" THEN 1 ELSE 5]

\* int(text) is defined: the text is a non-empty run of decimal digits
IsIntText(text) == Len(text) > 0 /\ \A n \in 1..Len(text) : text[n] \in DOMAIN DigitValue

\* int(text) for a text of decimal digits
RECURSIVE ParseInt(_)
ParseInt(text) ==
    IF text = <<>> THEN 0
    ELSE 10 * ParseInt(SubSeq(text, 1, Len(text) - 1)) + DigitValue[text[Len(text)]]

\* a row of k8s_full_metrics.csv; node_ok says whether the four node columns
\* of the row are texts float() accepts
AggRows == [Timestamp : {"ts1", "ts2"}, RPS : RpsTexts, node_ok : BOOLEAN]
AggInputs == UNION {[1..n -> AggRows] : n \in 0..MaxRows}

\* experiments[key].append(row) on a defaultdict(list): the groups in the
\* order their keys were first seen
RECURSIVE GroupRows(_, _)
GroupRows(groups, data) ==
    IF data = <<>> THEN groups
    ELSE LET row == Head(data)
             key == <<row.Timestamp, row.RPS>>
             at == {g \in 1..Len(groups) : groups[g].key = key}
         IN IF at = {}
            THEN GroupRows(Append(groups, [key |-> key, rows |-> <<row>>]), Tail(data))
            ELSE GroupRows([g \in 1..Len(groups) |->
                               IF g \in at
                               THEN [groups[g] EXCEPT !.rows = Append(@, row)]
                               ELSE groups[g]], Tail(data))

\* list.sort(key=...) is stable: a summary goes behind every summary whose
\* RPS is not larger
RECURSIVE InsertByRPS(_, _)
InsertByRPS(sorted, x) ==
    IF sorted = <<>> THEN <<x>>
    ELSE IF sorted[Len(sorted)].RPS <= x.RPS
    THEN Append(sorted, x)
    ELSE Append(InsertByRPS(SubSeq(sorted, 1, Len(sorted) - 1), x), sorted[Len(sorted)])

RECURSIVE SortFrom(_, _)
SortFrom(sorted, list) ==
    IF list = <<>> THEN sorted ELSE SortFrom(InsertByRPS(sorted, Head(list)), Tail(list))

\* mutant of SortByRPS: the list is returned in the order of the groups
SortByRPS_omitted(list) == list

\* summary_list.sort(key=lambda x: x['RPS'])
SortByRPS(list) == SortFrom(<<>>, list)

\* the first loop: every row is put into the group of its (Timestamp, RPS)
group_rows ==
    /\ agg_pc = "called"
    /\ experiments' = GroupRows(<<>>, agg_data)
    /\ agg_pc' = "summarizing"
    /\ UNCHANGED <<aggOthers, agg_data, summary_list>>

\* one pass of the second loop (experiments holds the groups not yet
\* visited): a first row whose node columns are not numbers skips the group,
\* int(rps) of a text that is no integer raises ValueError out of the
\* function, otherwise the summary is appended.  The totals of the summary
\* are left out; they take no part in the sort.
summarize_group ==
    /\ agg_pc = "summarizing"
    /\ experiments # <<>>
    /\ LET group == Head(experiments)
           ts == group.key[1]
           rps == group.key[2]
       IN IF ~group.rows[1].node_ok
          THEN /\ experiments' = Tail(experiments)
               /\ UNCHANGED <<summary_list, agg_pc>>
          ELSE IF ~IsIntText(rps)
          THEN /\ agg_pc' = "raised"
               /\ UNCHANGED <<experiments, summary_list>>
          ELSE /\ summary_list' = Append(summary_list,
                                         [Timestamp |-> ts, RPS |-> ParseInt(rps),
                                          Rows |-> Len(group.rows)])
               /\ experiments' = Tail(experiments)
               /\ agg_pc' = agg_pc
    /\ UNCHANGED <<aggOthers, agg_data>>

\* the loop is over: sort and return
sort_and_return ==
    /\ agg_pc = "summarizing"
    /\ experiments = <<>>
    /\ summary_list' = SortByRPS(summary_list)
    /\ agg_pc' = "returned"
    /\ UNCHANGED <<aggOthers, agg_data, experiments>>

InitAggregate ==
    /\ variant = "experiment"
    /\ DriverIdle
    /\ logged = {}
    /\ FetchIdle
    /\ NamesIdle
    /\ KubeletIdle
    /\ WrkIdle
    /\ MonIdle
    /\ agg_data \in AggInputs
    /\ experiments = <<>>
    /\ summary_list = <<>>
    /\ agg_pc = "called"

NextAggregate ==
    \/ group_rows
    \/ summarize_group
    \/ sort_and_return

SpecAggregate == InitAggregate /\ [][NextAggregate]_vars

(***************************************************************************)
(* parse_wrk.py: the fields of a wrk2 report                               *)
(***************************************************************************)
wrkOthers == <<variant, driverVars, logged, fetchVars, nameVars, kubeVars, aggVars, monVars>>

\* what a pattern finds in a report that does not hold it: nothing.  A
\* pattern that matches yields the sequence of what it captured.
Absent == <<>>

\* what ([0-9\.]+) can capture behind "Requests/sec:": every non-empty text
\* of digits and dots of at most MaxCaptureLen characters ("1" stands for any
\* digit)
RpsCaptures == UNION {[1..n -> {"1", "."}] : n \in 1..MaxCaptureLen}

\* the report, as what each re.search of parse_wrk_output finds in it
WrkContents ==
    [lat_stats : {Absent, <<"4.32ms", "2.10ms", "45.23ms">>},
     percentiles : {{}, {"lat_p50"}, {"lat_p50", "lat_p75", "lat_p90", "lat_p99", "lat_p999"}},
     rps : {Absent} \cup RpsCaptures,
     transfer : {Absent, <<"1.23MB">>},
     total : {Absent, <<0>>, <<200>>},
     socket_err : {Absent, <<0, 5, 0, 3>>, <<1, 0, 0, 0>>},
     non_2xx : {Absent, <<7>>}]

\* the result dictionary before any pattern is searched
WrkDefaults ==
    [lat_mean |-> "N/A", lat_stdev |-> "N/A", lat_max |-> "N/A",
     lat_p50 |-> "N/A", lat_p75 |-> "N/A", lat_p90 |-> "N/A",
     lat_p99 |-> "N/A", lat_p999 |-> "N/A",
     actual_rps |-> 0, transfer_rate |-> "N/A",
     total_requests |-> 0, socket_errors |-> 0, non_2xx_responses |-> 0,
     error_rate |-> 0, timeout_errors |-> 0]

\* number of characters c in a text
RECURSIVE CountOf(_, _)
CountOf(text, c) ==
    IF text = <<>> THEN 0
    ELSE (IF Head(text) = c THEN 1 ELSE 0) + CountOf(Tail(text), c)

\* float(text) is defined for a text of digits and dots: at most one dot and
\* at least one digit; any other text raises ValueError
FloatAccepts(text) == CountOf(text, ".") <= 1 /\ CountOf(text, "1") >= 1

RECURSIVE Pow10(_)
Pow10(n) == IF n = 0 THEN 1 ELSE 10 * Pow10(n - 1)

\* the digits of a text read as one decimal number, dots skipped
RECURSIVE DigitsOf(_)
DigitsOf(text) ==
    IF text = <<>> THEN 0
    ELSE IF text[Len(text)] = "."
    THEN DigitsOf(SubSeq(text, 1, Len(text) - 1))
    ELSE 10 * DigitsOf(SubSeq(text, 1, Len(text) - 1)) + 1

\* digits behind the dot
RECURSIVE PlacesOf(_)
PlacesOf(text) ==
    IF text = <<>> \/ CountOf(text, ".") = 0 THEN 0
    ELSE IF text[Len(text)] = "." THEN 0
    ELSE 1 + PlacesOf(SubSeq(text, 1, Len(text) - 1))

\* float(text) in units of 10^-MaxCaptureLen
FloatOf(text) == DigitsOf(text) * Pow10(MaxCaptureLen - PlacesOf(text))

\* round(total_errors / total_requests * 100, 4) in units of 10^-4 percent
\* (the division is exact for the request totals drawn here)
ErrorRate(total_errors, total_requests) == (total_errors * 1000000) \div total_requests

\* the dictionary parse_wrk_output builds from a report whose Requests/sec
\* capture, if there is one, is a text float() accepts
WrkResult(c) ==
    LET lat == IF c.lat_stats = Absent
               THEN WrkDefaults
               ELSE [WrkDefaults EXCEPT !.lat_mean = c.lat_stats[1],
                                        !.lat_stdev = c.lat_stats[2],
                                        !.lat_max = c.lat_stats[3]]
        pct == [k \in DOMAIN lat |-> IF k \in c.percentiles THEN "3.89ms" ELSE lat[k]]
        socket_errors == IF c.socket_err = Absent THEN 0
                         ELSE c.socket_err[1] + c.socket_err[2] + c.socket_err[3] + c.socket_err[4]
        timeout_errors == IF c.socket_err = Absent THEN 0 ELSE c.socket_err[4]
        total_requests == IF c.total = Absent THEN 0 ELSE c.total[1]
        non_2xx_responses == IF c.non_2xx = Absent THEN 0 ELSE c.non_2xx[1]
    IN [pct EXCEPT !.actual_rps = IF c.rps = Absent THEN 0 ELSE FloatOf(c.rps),
                   !.transfer_rate = IF c.transfer = Absent THEN "N/A" ELSE c.transfer[1],
                   !.total_requests = total_requests,
                   !.socket_errors = socket_errors,
                   !.timeout_errors = timeout_errors,
                   !.non_2xx_responses = non_2xx_responses,
                   !.error_rate = IF total_requests > 0
                                  THEN ErrorRate(socket_errors + non_2xx_responses, total_requests)
                                  ELSE 0]

\* parse_wrk_output(content): float() of the Requests/sec capture is called
\* outside any try block
parse_wrk_output ==
    /\ wrk_pc = "called"
    /\ IF wrk_content.rps # Absent /\ ~FloatAccepts(wrk_content.rps)
       THEN /\ wrk_pc' = "raised"
            /\ wrk_result' = wrk_result
       ELSE /\ wrk_pc' = "returned"
            /\ wrk_result' = WrkResult(wrk_content)
    /\ UNCHANGED <<wrkOthers, wrk_content>>

InitWrk ==
    /\ variant = "experiment"
    /\ DriverIdle
    /\ logged = {}
    /\ FetchIdle
    /\ NamesIdle
    /\ KubeletIdle
    /\ AggIdle
    /\ MonIdle
    /\ wrk_content \in WrkContents
    /\ wrk_result = <<>>
    /\ wrk_pc = "called"

NextWrk == parse_wrk_output

SpecWrk == InitWrk /\ [][NextWrk]_vars

(***************************************************************************)
(* measure_saturation_server.py: LocalCPUMonitor                           *)
(***************************************************************************)
monOthers == <<variant, driverVars, logged, fetchVars, nameVars, kubeVars, aggVars, wrkVars>>

\* the cpuN lines of /proc/stat, in the order sorted(..., key=int(x[3:])) and
\* the file itself give them
CoreOrder == <<"cpu0", "cpu1">>
Cores == {CoreOrder[n] : n \in 1..Len(CoreOrder)}

\* what one core's counters gained between two reads, <<delta_total,
\* delta_idle>>: nothing, or four ticks of which one or three were idle
CoreDeltas == {<<0, 0>>, <<4, 1>>, <<4, 3>>}

\* round((1 - delta_idle / delta_total) * 100, 2), in hundredths of a percent
\* (exact for the deltas drawn here)
Usage(delta) == ((delta[1] - delta[2]) * 10000) \div delta[1]

\* _calculate_usage: only a core whose total advanced gets an entry
calculate_usage(deltas) ==
    [c \in {k \in Cores : deltas[k][1] > 0} |-> Usage(deltas[c])]

\* sorted(usages.keys(), key=lambda x: int(x[3:]))
SortedCores(usages) == SelectSeq(CoreOrder, LAMBDA c : c \in DOMAIN usages)

RECURSIVE SumOver(_, _)
SumOver(usages, cores) ==
    IF cores = <<>> THEN 0 ELSE usages[Head(cores)] + SumOver(usages, Tail(cores))

\* max(usages, key=usages.get): the first core, in the order of the
\* dictionary, with the largest usage
MaxCore(usages) ==
    LET cores == SortedCores(usages)
        top == Max({usages[c] : c \in DOMAIN usages})
    IN cores[Min({n \in 1..Len(cores) : usages[cores[n]] = top})]

\* the statistics of a new LocalCPUMonitor
NoStats == [samples |-> 0, sum_avg |-> 0, max_usage |-> 0, max_core |-> "N/A"]

\* a second can pass: thread.join(timeout=3) waits no longer than its timeout
SecondCanPass == mon_main = "joining" => join_wait < JOIN_TIMEOUT
AfterSecond == IF mon_main = "joining" THEN join_wait + 1 ELSE join_wait

\* start(): running is set before the thread is started
start ==
    /\ mon_main = "idle"
    /\ mon_main' = "measuring"
    /\ mon_running' = TRUE
    /\ mon_thread' = "started"
    /\ UNCHANGED <<monOthers, mon_usages, mon_header, mon_rows, mon_stats, join_wait,
                   stats_at_stop>>

\* _monitor_loop up to the loop: the file is opened, the first reading taken
first_read ==
    /\ mon_thread = "started"
    /\ mon_thread' = "sleeping"
    /\ UNCHANGED <<monOthers, mon_running, mon_main, mon_usages, mon_header, mon_rows,
                   mon_stats, join_wait, stats_at_stop>>

\* time.sleep(1) is over
wake ==
    /\ mon_thread = "sleeping"
    /\ SecondCanPass
    /\ join_wait' = AfterSecond
    /\ mon_thread' = "check"
    /\ UNCHANGED <<monOthers, mon_running, mon_main, mon_usages, mon_header, mon_rows,
                   mon_stats, stats_at_stop>>

\* while self.running:
loop_test ==
    /\ mon_thread = "check"
    /\ mon_thread' = IF mon_running THEN "reading" ELSE "ended"
    /\ UNCHANGED <<monOthers, mon_running, mon_main, mon_usages, mon_header, mon_rows,
                   mon_stats, join_wait, stats_at_stop>>

\* curr_stat is read and the usages computed; an empty sample goes straight
\* to the sleep at the end of the pass
read_sample ==
    /\ mon_thread = "reading"
    /\ Len(mon_rows) < MaxSamples
    /\ \E deltas \in [Cores -> CoreDeltas] :
          /\ mon_usages' = calculate_usage(deltas)
          /\ mon_thread' = IF DOMAIN mon_usages' # {} THEN "writing" ELSE "sleeping"
    /\ UNCHANGED <<monOthers, mon_running, mon_main, mon_header, mon_rows, mon_stats,
                   join_wait, stats_at_stop>>

\* the write to the CSV file does not come back for another second
write_stalls ==
    /\ mon_thread = "writing"
    /\ mon_main = "joining"
    /\ SecondCanPass
    /\ join_wait' = AfterSecond
    /\ UNCHANGED <<monOthers, mon_running, mon_thread, mon_main, mon_usages, mon_header,
                   mon_rows, mon_stats, stats_at_stop>>

\* the header, once, from the cores of the first sample that has any; then the
\* row of this sample's cores (the two time columns are written as 0)
write_row ==
    /\ mon_thread = "writing"
    /\ mon_header' = IF mon_header = <<>>
                     THEN <<"timestamp", "relative_sec">> \o SortedCores(mon_usages)
                     ELSE mon_header
    /\ mon_rows' = Append(mon_rows,
                          <<0, 0>> \o [n \in 1..Len(SortedCores(mon_usages)) |->
                                          mon_usages[SortedCores(mon_usages)[n]]])
    /\ mon_thread' = "update"
    /\ UNCHANGED <<monOthers, mon_running, mon_main, mon_usages, mon_stats, join_wait,
                   stats_at_stop>>

\* the statistics of the sample, then prev_stat = curr_stat and the sleep
update_stats ==
    /\ mon_thread = "update"
    /\ LET cores == SortedCores(mon_usages)
           avg == SumOver(mon_usages, cores) \div Len(cores)
           max_core == MaxCore(mon_usages)
           raised == mon_usages[max_core] > mon_stats.max_usage
       IN mon_stats' = [samples |-> mon_stats.samples + 1,
                        sum_avg |-> mon_stats.sum_avg + avg,
                        max_usage |-> IF raised THEN mon_usages[max_core]
                                      ELSE mon_stats.max_usage,
                        max_core |-> IF raised THEN max_core ELSE mon_stats.max_core]
    /\ mon_thread' = "sleeping"
    /\ UNCHANGED <<monOthers, mon_running, mon_main, mon_usages, mon_header, mon_rows,
                   join_wait, stats_at_stop>>

\* stop(), first half: running is cleared and the join begins
stop_begin ==
    /\ mon_main = "measuring"
    /\ mon_running' = FALSE
    /\ join_wait' = 0
    /\ mon_main' = "joining"
    /\ UNCHANGED <<monOthers, mon_thread, mon_usages, mon_header, mon_rows, mon_stats,
                   stats_at_stop>>

\* thread.join(timeout=3) returns because the thread has ended; stop() returns
join_returns ==
    /\ mon_main = "joining"
    /\ mon_thread = "ended"
    /\ mon_main' = "stopped"
    /\ stats_at_stop' = mon_stats
    /\ UNCHANGED <<monOthers, mon_running, mon_thread, mon_usages, mon_header, mon_rows,
                   mon_stats, join_wait>>

\* thread.join(timeout=3) returns because three seconds have passed; stop()
\* returns with the thread still alive
join_timeout ==
    /\ mon_main = "joining"
    /\ mon_thread \notin {"idle", "ended"}
    /\ join_wait = JOIN_TIMEOUT
    /\ mon_main' = "stopped"
    /\ stats_at_stop' = mon_stats
    /\ UNCHANGED <<monOthers, mon_running, mon_thread, mon_usages, mon_header, mon_rows,
                   mon_stats, join_wait>>

\* cpu_stats = monitor.get_stats()
get_stats ==
    /\ mon_main = "stopped"
    /\ mon_main' = "read"
    /\ UNCHANGED <<monOthers, mon_running, mon_thread, mon_usages, mon_header, mon_rows,
                   mon_stats, join_wait, stats_at_stop>>

InitMonitor ==
    /\ variant = "experiment"
    /\ DriverIdle
    /\ logged = {}
    /\ FetchIdle
    /\ NamesIdle
    /\ KubeletIdle
    /\ AggIdle
    /\ WrkIdle
    /\ mon_running = FALSE
    /\ mon_thread = "idle"
    /\ mon_main = "idle"
    /\ mon_usages = <<>>
    /\ mon_header = <<>>
    /\ mon_rows = <<>>
    /\ mon_stats = NoStats
    /\ join_wait = 0
    /\ stats_at_stop = NoStats

NextMonitor ==
    \/ start
    \/ first_read
    \/ wake
    \/ loop_test
    \/ read_sample
    \/ write_stalls
    \/ write_row
    \/ update_stats
    \/ stop_begin
    \/ join_returns
    \/ join_timeout
    \/ get_stats

SpecMonitor == InitMonitor /\ [][NextMonitor]_vars

(***************************************************************************)
(* Properties of the Parallel Fetcher (checked under SpecFetch)            *)
(***************************************************************************)
DistinctPods == \A i, j \in FutureIds : i # j => pods_info[i] # pods_info[j]
Done(i) == fstate[i] \in {"finished", "collected"}
AllFailed(h) == \A n \in 1..Len(h) : h[n].kind # "ok"
Exhausted(i) == Done(i) /\ Len(hist[i]) >= MAX_RETRIES /\ AllFailed(hist[i])
Succeeded(i) == Done(i) /\ hist[i] # <<>> /\ hist[i][Len(hist[i])].kind = "ok"

\* C1: for a list of pods with pairwise distinct namespace/name and any mix of
\* per-pod outcomes, the mapping collect_network_parallel returns has exactly
\* one entry per requested pod, whatever the order in which futures complete.
C1_OneEntryPerPod ==
    (pcMain = "returned" /\ DistinctPods) =>
        /\ Cardinality(DOMAIN results) = Len(pods_info)
        /\ \A i \in FutureIds : PodKey(pods_info[i]) \in DOMAIN results

\* C1 witness: a returned batch of two distinct pods that share a pod name,
\* one read exhausted, the other successful.
C1_Witness ==
    /\ pcMain = "returned"
    /\ DistinctPods
    /\ Len(pods_info) = 2
    /\ pods_info[1].name = pods_info[2].name
    /\ \E i, j \in FutureIds : Exhausted(i) /\ Succeeded(j)
    /\ Cardinality(DOMAIN results) = 2

\* C7: get_pod_network_direct makes at most MAX_RETRIES (2) attempts per pod;
\* it returns at the first attempt that yields a counter pair (no attempt
\* follows a successful one, and the pair is the value returned); after a
\* failed first attempt it is still running, to try again; a pod whose read
\* always times out gets exactly 2 attempts and the value (0, 0).
C7_AtMostTwoAttempts ==
    \A i \in FutureIds :
        /\ Len(hist[i]) <= 2
        /\ Len(hist[i]) <= MAX_RETRIES
        /\ \A n \in 1..(Len(hist[i]) - 1) : hist[i][n].kind # "ok"
        /\ Succeeded(i) =>
              fresult[i] = <<hist[i][Len(hist[i])].rx, hist[i][Len(hist[i])].tx>>
        /\ (Len(hist[i]) = 1 /\ AllFailed(hist[i])) => fstate[i] = "running"
        /\ (Done(i) /\ \A n \in 1..Len(hist[i]) : hist[i][n].kind = "timeout") =>
              (Len(hist[i]) = 2 /\ fresult[i] = <<0, 0>>)

\* C7 witness: a finished read that timed out twice.
C7_Witness ==
    \E i \in FutureIds :
        /\ Done(i)
        /\ hist[i] = <<Failure("timeout"), Failure("timeout")>>
        /\ fresult[i] = <<0, 0>>

\* the value a pod's own attempts determine
OwnValue(h) ==
    IF h # <<>> /\ h[Len(h)].kind = "ok"
    THEN <<h[Len(h)].rx, h[Len(h)].tx>>
    ELSE <<0, 0>>

\* C8: a pod whose read fails on every attempt is recorded as (0, 0), and
\* the value recorded for every pod is the one its own attempts determine,
\* whatever happened to the other pods; the batch is not aborted.
C8_FailureIsLocal ==
    DistinctPods =>
        \A i \in FutureIds :
            fstate[i] = "collected" =>
                /\ PodKey(pods_info[i]) \in DOMAIN results
                /\ results[PodKey(pods_info[i])] = OwnValue(hist[i])
                /\ Exhausted(i) => results[PodKey(pods_info[i])] = <<0, 0>>

\* C8 witness: the batch returned although the first pod failed on every
\* attempt; the second pod's successful reading is recorded unchanged.
C8_Witness ==
    /\ pcMain = "returned"
    /\ DistinctPods
    /\ Len(pods_info) >= 2
    /\ Exhausted(1)
    /\ Succeeded(2)
    /\ results[PodKey(pods_info[1])] = <<0, 0>>
    /\ results[PodKey(pods_info[2])] = <<5000, 3000>>

\* C9: whenever a pod's read ends as the failure marker (0, 0) after using up
\* its attempts, by timeout or by non-zero exit, a failure reason for that pod
\* has been logged.
C9_ExhaustedIsLogged ==
    \A i \in FutureIds :
        Exhausted(i) => \E l \in logged : l[1] = PodKey(pods_info[i])

(***************************************************************************)
(* Properties of the delta computation and the driver (checked under Spec) *)
(***************************************************************************)
Range(q) == {q[n] : n \in 1..Len(q)}
HasRow(k) == \E n \in 1..Len(rows) : rows[n].pod = k
RowsOf(k) == {n \in 1..Len(rows) : rows[n].pod = k}
InBoth == DOMAIN t1 \cap DOMAIN t2

\* the delta loop has visited key k
DeltaDone(k) == k \in DOMAIN t1 /\ pc \in {"delta", "exited"} /\ k \notin Range(todo)

\* some monotonic counter is smaller at T2 than at T1
Regressed(s, e) ==
    \/ e.cpu_total < s.cpu_total
    \/ e.cpu_app < s.cpu_app
    \/ e.cpu_sidecar < s.cpu_sidecar
    \/ e.rx < s.rx
    \/ e.tx < s.tx

\* C2: for any entity present in both snapshots with at least one monotonic
\* counter (CPU total, CPU app, CPU sidecar, rx bytes, tx bytes) smaller at
\* T2 than at T1, no Delta Record is emitted.
C2_ResetDropsEntity ==
    \A k \in InBoth : Regressed(t1[k], t2[k]) => ~HasRow(k)

\* C3: every entity present in both snapshots whose counters are all
\* non-decreasing gets exactly one Delta Record (and no entity ever has more
\* than one).
C3_SteadyEntityOneRecord ==
    /\ \A k \in Entities : Cardinality(RowsOf(k)) <= 1
    /\ \A k \in InBoth :
          (DeltaDone(k) /\ ~Regressed(t1[k], t2[k])) => Cardinality(RowsOf(k)) = 1

\* C3 witness: the run ended with two entities in both snapshots, each with
\* non-decreasing counters (one of them with a CPU delta of zero), and two rows.
C3_Witness ==
    /\ pc = "exited"
    /\ exit_code = 0
    /\ InBoth = Entities
    /\ \A k \in Entities : ~Regressed(t1[k], t2[k])
    /\ \E k \in Entities : t2[k].cpu_total = t1[k].cpu_total
    /\ Len(rows) = 2

Abs(x) == IF x >= 0 THEN x ELSE -x

\* rate is delta / duration / 1_000_000 (ns) cut to an integer
CpuRateMatches(rate, delta, duration) ==
    Abs(rate * duration * CpuDivisor - delta) < duration * CpuDivisor

\* rate (hundredths) is delta / duration / 1024 rounded to two decimals
NetRateMatches(rate, delta, duration) ==
    2 * Abs(rate * duration * KIB - 100 * delta) <= duration * KIB

\* C4: in every emitted Delta Record the CPU rates equal
\* (cpu_T2 - cpu_T1) / elapsed / 1,000,000 and the network rates equal
\* (bytes_T2 - bytes_T1) / elapsed / 1024, up to the output rounding; in
\* particular 1e9 ns at T1, 3e9 ns at T2 and 2 s elapsed give 1000 millicores.
C4_RatesFollowFormula ==
    \A n \in 1..Len(rows) :
        LET r == rows[n]
            s == t1[r.pod]
            e == t2[r.pod]
            d == actual_duration
        IN /\ CpuRateMatches(r.cpu_total_m, e.cpu_total - s.cpu_total, d)
           /\ CpuRateMatches(r.cpu_app_m, e.cpu_app - s.cpu_app, d)
           /\ CpuRateMatches(r.cpu_sidecar_m, e.cpu_sidecar - s.cpu_sidecar, d)
           /\ NetRateMatches(r.rx_kbps, e.rx - s.rx, d)
           /\ NetRateMatches(r.tx_kbps, e.tx - s.tx, d)
           /\ (s.cpu_total = 1000000000 \div MicroScale
                 /\ e.cpu_total = 3 * (1000000000 \div MicroScale)
                 /\ d = 2) => r.cpu_total_m = 1000

\* C5: an entity present at T1 and absent at T2 gets no Delta Record, and
\* the loop goes on with the remaining entities.
C5_DisappearedIsSkipped ==
    /\ [](\A n \in 1..Len(rows) : rows[n].pod \in DOMAIN t2)
    /\ [][(pc = "delta" /\ todo # <<>> /\ Head(todo) \notin DOMAIN t2) =>
            (rows' = rows /\ todo' = Tail(todo) /\ pc' = "delta")]_vars

\* C5 witness: the first entity visited had disappeared, the second one,
\* visited after it, has its Delta Record.
C5_Witness ==
    /\ pc = "exited"
    /\ exit_code = 0
    /\ DOMAIN t1 = Entities
    /\ EntityOrder[1] \notin DOMAIN t2
    /\ ~HasRow(EntityOrder[1])
    /\ HasRow(EntityOrder[2])

\* C6: every entity the delta computation drops (absent at T2, or a negative
\* counter delta) has a logged reason that names it.
C6_DropsAreLogged ==
    \A k \in Entities :
        (DeltaDone(k) /\ ~HasRow(k)) => \E l \in logged : l[1] = k

\* C10: if the T1 or the T2 snapshot holds no entity, the run does not end
\* normally (exit status 0) with an empty Delta Record set.
C10_EmptySnapshotFails ==
    (pc = "exited" /\ exit_code = 0) => (DOMAIN t1 # {} /\ DOMAIN t2 # {})

\* the T2 snapshot has been collected and the elapsed time computed
T2Collected == pc = "delta" \/ (pc = "exited" /\ exit_code = 0)

\* C11: the elapsed time every rate is divided by is the measured wall-clock
\* gap between the instant the T1 snapshot was assembled and the instant the
\* T2 snapshot was assembled (and so not the requested sleep duration).
C11_ElapsedIsGapBetweenSnapshots ==
    T2Collected => actual_duration = t2_time - t1_assembled

\* C16: when the sleep between the snapshots is interrupted, the driver still
\* collects the T2 snapshot and computes the rates over the time that did
\* elapse: no run ends at the interrupted sleep without a T2 snapshot and
\* without Delta Records.
C16_InterruptedSleepStillCollects ==
    ~(pc = "interrupted" /\ exit_code # -1 /\ DOMAIN t1 # {} /\ DOMAIN t2 = {}
        /\ rows = <<>>)

(***************************************************************************)
(* Properties of the merged snapshot (checked under SpecFetch)             *)
(***************************************************************************)
\* the keys of the entities the CPU / memory query returned
KubeletKeys == {PodKey(pods_info[i]) : i \in FutureIds}

\* C12: every entity returned by the CPU / memory query carries a network
\* reading in the assembled snapshot; the reading of an entity whose fetch
\* failed is (0, 0), the entity is not left out, so no entity of the CPU /
\* memory snapshots is lost from the delta join for lack of a reading.
C12_EveryEntityHasNetworkReading ==
    pcMain = "merged" =>
        /\ DOMAIN metrics = KubeletKeys
        /\ \A i \in FutureIds :
              LET key == PodKey(pods_info[i]) IN
              DistinctPods =>
                  /\ <<metrics[key].rx, metrics[key].tx>> = OwnValue(hist[i])
                  /\ Exhausted(i) => (metrics[key].rx = 0 /\ metrics[key].tx = 0)
                  /\ metrics[key].cpu_total = KubeletEntry.cpu_total

\* C12 witness: a snapshot of two entities was merged; the fetch of the first
\* failed on every attempt and its entry holds (0, 0), the second holds the
\* pair that was read.
C12_Witness ==
    /\ pcMain = "merged"
    /\ DistinctPods
    /\ Len(pods_info) = 2
    /\ Exhausted(1)
    /\ Succeeded(2)
    /\ DOMAIN metrics = {PodKey(pods_info[1]), PodKey(pods_info[2])}
    /\ metrics[PodKey(pods_info[1])].rx = 0
    /\ metrics[PodKey(pods_info[1])].tx = 0
    /\ metrics[PodKey(pods_info[2])].rx = 5000
    /\ metrics[PodKey(pods_info[2])].tx = 3000

\* the stores into the result mapping that hit key k
WritesTo(k) == {w \in writes : w[1] = k}

\* C14 (as stated): within one call the result mapping is written exactly
\* once per key, by exactly one pool worker, and no two workers write the
\* same key.
C14_WrittenOnceByOneWorker ==
    \A w \in writes :
        /\ w[3] # "caller"
        /\ Cardinality(WritesTo(w[1])) = 1

\* C14 (amended): for pods with pairwise distinct namespace/name the result
\* mapping is written at most once per key, exactly once per key when the
\* call returns, and every store is made by the calling thread, never by a
\* pool worker; so no two workers ever write the same key.
C14_WrittenOnceByCaller ==
    /\ \A w \in writes : w[3] = "caller"
    /\ DistinctPods =>
          /\ \A w \in writes : Cardinality(WritesTo(w[1])) = 1
          /\ pcMain \in {"returned", "merged"} =>
                \A i \in FutureIds : Cardinality(WritesTo(PodKey(pods_info[i]))) = 1

\* C14 witness: the call returned for two distinct pods, one store per key,
\* both made by the calling thread for futures that ran in the pool.
C14_Witness ==
    /\ pcMain = "returned"
    /\ DistinctPods
    /\ Len(pods_info) = 2
    /\ Cardinality(writes) = 2
    /\ \A i \in FutureIds : <<PodKey(pods_info[i]), i, "caller">> \in writes
    /\ \A i \in FutureIds : hist[i] # <<>>

(***************************************************************************)
(* Properties of the worker pool (checked under SpecPool)                  *)
(***************************************************************************)
\* future i has been taken by a worker
Started(i) == fstate[i] \in {"running", "finished", "collected"}

\* reads that were started before future i and have ended
EndedBefore(i) == {j \in 1..(i - 1) : Done(j)}

\* C13: at every instant of a collect_network_parallel call at most 10
\* per-pod reads are in progress, and a pod beyond the budget is started only
\* after an earlier read has finished.
C13_AtMostTenReadsInProgress ==
    /\ Cardinality(Running) <= 10
    /\ \A i \in FutureIds :
          (Started(i) /\ i > 10) => Cardinality(EndedBefore(i)) >= i - 10

\* C13 witness: the eleventh read is in progress together with nine others,
\* after exactly one of the first ten reads has ended.
C13_Witness ==
    /\ Len(pods_info) >= 11
    /\ fstate[11] = "running"
    /\ Cardinality(Running) = 10
    /\ Cardinality(EndedBefore(11)) = 1

(***************************************************************************)
(* Properties of a repeated delta computation (checked under SpecTwice)    *)
(***************************************************************************)
\* the second call of calculate_deltas has visited every entity
SecondCallDone == run_no = 2 /\ todo = <<>> /\ pc \in {"delta", "exited"}

\* C15: running the delta computation twice on the same pair of snapshots
\* with the same elapsed time yields identical lists of Delta Records.
C15_DeltasAreRepeatable ==
    SecondCallDone => rows = first_rows

\* C15 witness: both calls are over; of two entities of the T1 snapshot one
\* was dropped and one has its row, in both lists.
C15_Witness ==
    /\ SecondCallDone
    /\ DOMAIN t1 = Entities
    /\ Len(first_rows) = 1
    /\ rows = first_rows
    /\ logged # {}

(***************************************************************************)
(* Properties of the service names (checked under SpecService)             *)
(***************************************************************************)
\* the position of the last hyphen but one of a name with two hyphens or more
SecondLastHyphen(str) == Max(Hyphens(str) \ {Max(Hyphens(str))})

\* the name up to, and without, its last hyphen but one
WithoutLastTwoSegments(str) == SubSeq(str, 1, SecondLastHyphen(str) - 1)

\* C17: for every pod name of three or more hyphen-delimited segments, the
\* service name is in both variants the pod name with its last two segments
\* removed (a-b-a gives a; a-b-a-b gives a-b).
C17_ServiceDropsLastTwoSegments ==
    Cardinality(Hyphens(pod_name)) >= 2 =>
        /\ service.experiment \in {NotDerived, WithoutLastTwoSegments(pod_name)}
        /\ service.wrk2 \in {NotDerived, WithoutLastTwoSegments(pod_name)}
        /\ pod_name = <<"a", "-", "b", "-", "a", "-", "b">> =>
              /\ service.experiment \in {NotDerived, <<"a", "-", "b">>}
              /\ service.wrk2 \in {NotDerived, <<"a", "-", "b">>}

\* C17 witness: both variants have derived a-b from the four-segment name
\* a-b-a-b.
C17_Witness ==
    /\ pod_name = <<"a", "-", "b", "-", "a", "-", "b">>
    /\ service.experiment = <<"a", "-", "b">>
    /\ service.wrk2 = <<"a", "-", "b">>

(***************************************************************************)
(* Properties of the kubelet summary loop (checked under SpecKubelet)      *)
(***************************************************************************)
RECURSIVE SumCpu(_)
SumCpu(cs) == IF cs = <<>> THEN 0 ELSE Head(cs).cpu + SumCpu(Tail(cs))

\* C18: in every snapshot entry the CPU total equals the application
\* sub-total plus the sidecar sub-total: each container's cumulative CPU is
\* counted once in the total and once in exactly one of the two sub-totals.
C18_TotalIsAppPlusSidecar ==
    \A k \in DOMAIN snapshot :
        LET e == snapshot[k] IN
        /\ e.cpu_total = e.cpu_app + e.cpu_sidecar
        /\ e.cpu_total = SumCpu(e.containers)
        /\ e.cpu_app >= 0
        /\ e.cpu_sidecar >= 0

\* C18 witness: an entry of a pod with an application container and a
\* sidecar, each sub-total non-zero.
C18_Witness ==
    \E k \in DOMAIN snapshot :
        /\ Len(snapshot[k].containers) = 2
        /\ snapshot[k].cpu_app > 0
        /\ snapshot[k].cpu_sidecar > 0
        /\ snapshot[k].cpu_total = snapshot[k].cpu_app + snapshot[k].cpu_sidecar

\* C20: every entity of a collected snapshot belongs to a namespace listed
\* in TARGET_NAMESPACES that is enabled by default or, only when the
\* include-all flag is set, to a listed namespace that is disabled by
\* default; pods of unlisted namespaces never appear.
C20_OnlyTargetNamespaces ==
    \A k \in DOMAIN snapshot :
        LET ns == snapshot[k].namespace IN
        /\ ns \in DOMAIN TargetDefaults(variant)
        /\ (TargetDefaults(variant)[ns].enabled \/ include_all_ns)

\* C20 witness: with the flag set, a returned snapshot holds an entity of
\* a namespace disabled by default next to one of a namespace enabled by
\* default, and the summary listed two pods.
C20_Witness ==
    /\ kube_pc = "done"
    /\ include_all_ns
    /\ pods_seen = 2
    /\ \E k \in DOMAIN snapshot : snapshot[k].namespace = "istio-system"
    /\ \E k \in DOMAIN snapshot : snapshot[k].namespace = "default"

(***************************************************************************)
(* Memory gauges of the Delta Records (checked under Spec)                 *)
(***************************************************************************)
\* C19: each Delta Record's memory gauge values are those of the T2
\* snapshot (never T1's), and the record additionally reports the change of
\* the memory gauge between T1 and T2.
C19_MemoryIsT2WithChange ==
    \A n \in 1..Len(rows) :
        LET r == rows[n]
            s == t1[r.pod]
            e == t2[r.pod]
        IN /\ r.mem_working_set = MemMiB(e.mem_ws_bytes)
           /\ r.mem_rss = MemMiB(e.mem_rss_bytes)
           /\ "mem_delta" \in DOMAIN r
           /\ r.mem_delta = MemMiB(e.mem_ws_bytes) - MemMiB(s.mem_ws_bytes)

(***************************************************************************)
(* Further properties of the Delta Records (checked under Spec)            *)
(***************************************************************************)
\* C25: every rate field of every emitted Delta Record (CPU total, CPU app,
\* CPU sidecar, network RX, network TX) is non-negative, for any pair of
\* snapshots.
C25_RatesAreNonNegative ==
    \A n \in 1..Len(rows) :
        /\ rows[n].cpu_total_m >= 0
        /\ rows[n].cpu_app_m >= 0
        /\ rows[n].cpu_sidecar_m >= 0
        /\ rows[n].rx_kbps >= 0
        /\ rows[n].tx_kbps >= 0

(***************************************************************************)
(* Further properties of the namespace table (checked under SpecKubelet)   *)
(***************************************************************************)
\* C26: in the wrk2 variant, enabling istio-system and kube-system for
\* --all-namespaces leaves the enabled flags of the module-level
\* TARGET_NAMESPACES unchanged.
C26_ModuleTableUnchanged ==
    variant = "wrk2" =>
        \A ns \in DOMAIN target_namespaces :
            target_namespaces[ns].enabled = TargetDefaults("wrk2")[ns].enabled

(***************************************************************************)
(* Further properties of the service names (checked under SpecService)     *)
(***************************************************************************)
\* C27: for every pod name, including names of fewer than three
\* hyphen-delimited segments, the experiment variant and the wrk2 variant
\* derive the same service name.
C27_VariantsAgreeOnService ==
    (service.experiment # NotDerived /\ service.wrk2 # NotDerived) =>
        service.experiment = service.wrk2

(***************************************************************************)
(* The PCM background process (checked under Spec)                         *)
(***************************************************************************)
\* C29: whenever collect_metrics has started the PCM background process,
\* that process is stopped before collect_metrics ends, on every path,
\* including the paths on which a step of collect_metrics fails.
C29_PcmStoppedOnEveryPath ==
    pc \in {"exited", "interrupted"} => pcm_proc # "running"

(***************************************************************************)
(* Order of the driver's steps (checked under SpecRun)                     *)
(***************************************************************************)
\* the moves of the driver from one step to the next
DriverOrder ==
    {<<"precheck", "collect_t1">>, <<"precheck", "exited">>,
     <<"collect_t1", "sleep">>, <<"sleep", "collect_t2">>,
     <<"sleep", "interrupted">>, <<"collect_t2", "delta">>,
     <<"delta", "exited">>}

\* no read of the parallel region is pending or in progress
RegionJoined == \A i \in FutureIds : fstate[i] = "collected"

\* C23: the driver executes strictly in the order collect T1, sleep, collect
\* T2, compute deltas, and each snapshot's parallel fetch region is fully
\* joined (no fetch worker is still running) before the driver moves on.
C23_SequentialDriverJoinedRegions ==
    /\ [](pc \notin {"collect_t1", "collect_t2"} => RegionJoined)
    /\ [][pc' # pc => (<<pc, pc'>> \in DriverOrder /\ Running = {})]_vars

\* C23 witness: the run ended normally after two parallel regions of two
\* pods each, every read collected.
C23_Witness ==
    /\ pc = "exited"
    /\ exit_code = 0
    /\ Len(pods_info) = 2
    /\ RegionJoined
    /\ Cardinality(writes) = 2

(***************************************************************************)
(* Termination of the Parallel Fetcher (checked under SpecGather)          *)
(***************************************************************************)
\* collect_network_parallel has returned a mapping with an entry for the key
\* of every listed pod
GatherReturned ==
    /\ pcMain = "returned"
    /\ \A i \in FutureIds : PodKey(pods_info[i]) \in DOMAIN results

\* C24: given that every per-pod command exits or hits its timeout,
\* collect_network_parallel terminates for every finite pod list and returns
\* its mapping.
C24_GatherTerminates == <>GatherReturned

\* C24 witness: the fetcher returned for two pods, one of which used up its
\* attempts on timeouts.
C24_Witness ==
    /\ GatherReturned
    /\ Len(pods_info) = 2
    /\ \E i \in FutureIds :
          /\ Len(hist[i]) = MAX_RETRIES
          /\ \A n \in 1..Len(hist[i]) : hist[i][n].kind = "timeout"

(***************************************************************************)
(* aggregate_by_experiment (checked under SpecAggregate)                   *)
(***************************************************************************)
\* C21: for every set of input rows, the summary list returned by
\* aggregate_by_experiment is in non-decreasing order of integer RPS.
C21_SummarySortedByRPS ==
    agg_pc = "returned" =>
        \A a, b \in 1..Len(summary_list) :
            a < b => summary_list[a].RPS <= summary_list[b].RPS

\* C21 witness: the rows of the run at 10 RPS came before the rows of the run
\* at 5 RPS, and the returned list has the run at 5 RPS first.
C21_Witness ==
    /\ agg_pc = "returned"
    /\ Len(agg_data) >= 2
    /\ agg_data[1].RPS = <<"1", "0">>
    /\ Len(summary_list) = 2
    /\ summary_list[1].RPS = 5
    /\ summary_list[2].RPS = 10

(***************************************************************************)
(* parse_wrk_output (checked under SpecWrk)                                *)
(***************************************************************************)
\* C22: parse_wrk_output never raises for any report text: every field whose
\* pattern is absent from the text keeps its default ('N/A' for latencies and
\* transfer rate, 0 for counts and rates) and every result key is always
\* present.
C22_ParseNeverRaises ==
    /\ wrk_pc # "raised"
    /\ wrk_pc = "returned" =>
          /\ DOMAIN wrk_result = DOMAIN WrkDefaults
          /\ wrk_content.lat_stats = Absent =>
                \A k \in {"lat_mean", "lat_stdev", "lat_max"} : wrk_result[k] = "N/A"
          /\ \A k \in {"lat_p50", "lat_p75", "lat_p90", "lat_p99", "lat_p999"} :
                k \notin wrk_content.percentiles => wrk_result[k] = "N/A"
          /\ wrk_content.rps = Absent => wrk_result.actual_rps = 0
          /\ wrk_content.transfer = Absent => wrk_result.transfer_rate = "N/A"
          /\ wrk_content.total = Absent =>
                wrk_result.total_requests = 0 /\ wrk_result.error_rate = 0
          /\ wrk_content.socket_err = Absent =>
                wrk_result.socket_errors = 0 /\ wrk_result.timeout_errors = 0
          /\ wrk_content.non_2xx = Absent => wrk_result.non_2xx_responses = 0

(***************************************************************************)
(* LocalCPUMonitor (checked under SpecMonitor)                             *)
(***************************************************************************)
\* C28: every data row LocalCPUMonitor writes has exactly as many columns as
\* the header row, with each core's usage under that core's header column,
\* for any sequence of /proc/stat samples (including samples in which some
\* core's total time did not advance).
C28_RowsMatchHeader ==
    mon_thread = "update" =>
        LET row == mon_rows[Len(mon_rows)]
        IN /\ Len(row) = Len(mon_header)
           /\ \A n \in 3..Len(row) :
                 /\ mon_header[n] \in DOMAIN mon_usages
                 /\ row[n] = mon_usages[mon_header[n]]

\* C30: once LocalCPUMonitor.stop() has returned, the monitor thread records
\* no further sample: samples, sum_avg, max_usage and max_core no longer
\* change, so get_stats() called after stop() reads a stable state.
C30_StatsStableAfterStop ==
    mon_main \in {"stopped", "read"} => mon_stats = stats_at_stop

====
